---- MODULE Spec2Model ----
(***************************************************************************)
(* OAuth credential lifecycle of the plugin: OAuthManager (credential      *)
(* store, lazy / reactive / background refresh, login, logout, delivery    *)
(* sync) and the RAGEngine request wrapper (header injection, retry on     *)
(* 401/403).                                                               *)
(*                                                                         *)
(* JavaScript runs one call at a time and switches between calls only at   *)
(* an await.  Every action below is the code that runs between two awaits  *)
(* of one call; a call that is suspended at an await is a task whose pc    *)
(* names the promise it waits for.  Time is counted in minutes.            *)
(***************************************************************************)
EXTENDS Integers, FiniteSets, Sequences, TLC

\* ---------------------------------------------------------------- bounds
MaxTicks == 1        \* minutes the clock advances after construction
MaxViews == 2        \* calls of generateEnvConfig, and of listProviders

\* ------------------------------------------------------ program constants
Window == 10         \* look-ahead of the background sweep, minutes
Lifetime == 60       \* lifetime of a token issued by a provider, minutes

Providers == {"anthropic", "openai-codex"}
NoProvider == ""
\* a provider id that is not in the registry
Unregistered == "unregistered"
\* two calls overlap: every property below is about one call or about a
\* pair of calls that are in progress together
Tasks == {1, 2}

\* -------------------------------------------------------------- records
NoRec == [has |-> FALSE, access |-> 0, refresh |-> FALSE, expires |-> 0]

Rec(a, r, e) == [has |-> TRUE, access |-> a, refresh |-> r, expires |-> e]

\* access token of the record a provider has on disk at construction
InitToken(p) == IF p = "anthropic" THEN 1 ELSE 2

\* expiry instants of the records on disk: expired, at the edge of the
\* look-ahead window (inside it by a minute once the clock has advanced),
\* outside it (the clock starts at 0)
InitExpires == {0 - 1, 10, 20}

\* records with and without a refresh token; one provider suffices for the
\* case without
InitRecs(p) ==
  {NoRec} \cup {Rec(InitToken(p), r, e) :
                  r \in IF p = "anthropic" THEN BOOLEAN ELSE {TRUE},
                  e \in InitExpires}

\* results of a call
NoRes == [kind |-> "none", key |-> 0]
Absent == [kind |-> "absent", key |-> 0]
Threw == [kind |-> "threw", key |-> 0]
Void == [kind |-> "void", key |-> 0]
Key(k) == [kind |-> "key", key |-> k]

\* provider.getApiKey(creds): the bearer token of the record
ProviderKey(rec) == rec.access

\* outcomes provider.refreshToken(rec) can have: it can always fail, and it
\* can succeed only when the record carries a refresh token
RefreshOutcomes(rec) == IF rec.refresh THEN {TRUE, FALSE} ELSE {FALSE}

Settings(c, a) == [creds |-> c, active |-> a]

\* the OAuth section generateEnvConfig writes
GenEnvOAuth(c, a) ==
  IF a # NoProvider /\ c[a].has
    THEN [provider |-> a, access |-> c[a].access]
    ELSE [provider |-> NoProvider, access |-> 0]

\* headers of a request: the two OAuth headers, or neither
NoHeaders == [prov |-> NoProvider, key |-> 0]

\* a request of the wrapper that has not started
NoReq ==
  [kind |-> "none", wpc |-> "none", auto |-> FALSE, hdr |-> NoHeaders,
   first |-> 0 - 1,
   second |-> 0 - 1, sends |-> 0, forces |-> 0, restarts |-> 0,
   out |-> [kind |-> "none", cause |-> 0 - 1, relogin |-> FALSE]]

NoFrame ==
  [op |-> "idle", pc |-> "idle", p |-> NoProvider, loc |-> NoRec,
   todo |-> {}, snap |-> [q \in Providers |-> NoRec], thr |-> 0,
   pend |-> Settings([q \in Providers |-> NoRec], NoProvider),
   res |-> NoRes, why |-> "", calls |-> 0, conc |-> {}]

\* configuration of a service that is not running
NoEnv == [provider |-> "-", access |-> 0 - 1]

\* settings data as the migrations see it: a version and, field by field, the
\* JSON value of the field ("undefined" when the object has no such key)
NoSettings ==
  [version |-> 0, oauthCredentials |-> "undefined",
   lightRagOAuthProvider |-> "undefined",
   enableProactiveDiscovery |-> "undefined", oauthModels |-> "undefined",
   chatModels |-> "undefined"]

\* callCloudCodeAssist has not been called; log holds the outcome of every
\* request the call has made
NoAssist ==
  [pc |-> "idle", attempt |-> 0, sends |-> 0, log |-> <<>>, res |-> "none"]

\* no settings data is being migrated
\* steps: the migration steps made so far
NoData ==
  [stage |-> "none", steps |-> 0, input |-> NoSettings,
   output |-> NoSettings]

\* serverUp: serverProcess holds a child process; timers: restart timeouts
\* that have been set and have not fired; starts: startLightRagServer calls
\* waiting for isPortInUse; spawns: such calls that found the port free and
\* have not spawned yet; listening: what accepts connections on the port
\* ("own" the child process serverProcess refers to, "other" a service the
\* plugin holds no handle of); serverEnv: the configuration the listening
\* service read when it started
\* generated: what the calls of generateEnvConfig made so far returned, with
\* the settings and the time of each call; listed: what the calls of
\* listProviders returned; data: the settings object a migration step is
\* given and the one it returned; procs: the service processes the plugin
\* has spawned that are alive; assist: the callCloudCodeAssist call
VARIABLES now, creds, active, disk, written, envFile, serverUp, timers, task,
          req, starts, spawns, listening, serverEnv, generated, listed,
          data, procs, assist

vars == <<now, creds, active, disk, written, envFile, serverUp, timers, task,
          req, starts, spawns, listening, serverEnv, generated, listed,
                 data, procs, assist>>

\* ------------------------------------------------------------------ Init
\* the state after onload: the settings are the ones on disk, and a provider
\* is the active source only if it has a record
InitStore ==
  /\ now = 0
  /\ creds \in {c \in [Providers -> UNION {InitRecs(p) : p \in Providers}] :
                  \A p \in Providers : c[p] \in InitRecs(p)}
  /\ active \in {a \in Providers \cup {NoProvider} :
                  a # NoProvider => creds[a].has}
  /\ disk = Settings(creds, active)
  /\ written = {creds[p].access : p \in {q \in Providers : creds[q].has}}
  /\ envFile = GenEnvOAuth(creds, active)
  /\ timers = 0
  /\ task = [t \in Tasks |-> NoFrame]
  /\ req = [t \in Tasks |-> NoReq]
  /\ starts = 0
  /\ spawns = 0
  /\ generated = <<>>
  /\ listed = <<>>

\* the service has not been started
Init ==
  /\ InitStore
  /\ serverUp = FALSE
  /\ listening = "none"
  /\ serverEnv = NoEnv
  /\ data = NoData
  /\ procs = 0
  /\ assist = NoAssist

\* the service has not been started, or the start made on layout-ready has
\* spawned it, or that start found a service on the port already
InitSync ==
  /\ InitStore
  /\ listening \in {"none", "own", "other"}
  /\ serverUp = (listening = "own")
  /\ serverEnv = IF listening = "none" THEN NoEnv ELSE envFile
  /\ data = NoData
  /\ procs = IF listening = "own" THEN 1 ELSE 0
  /\ assist = NoAssist

\* a call can start in slot t when the slots before it are in use
CanStart(t) ==
  /\ task[t].pc = "idle"
  /\ \A u \in Tasks : u < t => task[u].pc # "idle"

\* the calls that are suspended at an await
InFlight == {u \in Tasks : task[u].pc \notin {"idle", "done"}}

\* the frame of a call that starts now
NewFrame(op) == [NoFrame EXCEPT !.op = op, !.conc = InFlight]

Finish(f, r) ==
  [f EXCEPT !.pc = "done", !.res = r, !.loc = NoRec, !.todo = {},
            !.snap = NoFrame.snap, !.thr = 0, !.pend = NoFrame.pend]

\* token issued by the provider call task t has in flight
Mint(t) == 10 * t + task[t].calls

Tokens(c) == {c[q].access : q \in {r \in Providers : c[r].has}}

\* stopLightRagServer: the child process, if there is one, is killed
StopLightRagServer ==
  /\ serverUp' = FALSE
  /\ listening' = IF serverUp /\ listening = "own" THEN "none" ELSE listening
  /\ serverEnv' = IF serverUp /\ listening = "own" THEN NoEnv ELSE serverEnv
  /\ procs' = IF serverUp THEN procs - 1 ELSE procs

\* restartLightRagServer: stop, and a 2-second timeout that starts again
RestartLightRagServer ==
  /\ StopLightRagServer
  /\ timers' = timers + 1
  /\ UNCHANGED <<starts, spawns, generated, listed, data, assist>>

\* syncToLightRagServer: updateEnvFile, then restartLightRagServer
SyncToLightRagServer ==
  /\ envFile' = GenEnvOAuth(creds', active')
  /\ RestartLightRagServer

NoSync ==
  UNCHANGED <<envFile, serverUp, timers, starts, spawns, listening, serverEnv,
              generated, listed,
                 data, procs, assist>>

\* saveCredentials up to its await: the store gets the record and saveData
\* is called with the settings
SaveCredentialsBegin(t, f, p, rec) ==
  /\ creds' = [creds EXCEPT ![p] = rec]
  /\ task' = [task EXCEPT ![t] =
       [f EXCEPT !.pc = "save", !.p = p, !.loc = rec,
                 !.pend = Settings(creds', active)]]
  /\ UNCHANGED <<now, active, disk, written, req>>
  /\ NoSync

\* clearCredentials with the active source reset whichever provider is cleared
ClearCredentialsBegin_AlwaysResetActive(t, f, p) ==
  /\ creds' = [creds EXCEPT ![p] = NoRec]
  /\ active' = NoProvider
  /\ task' = [task EXCEPT ![t] =
       [f EXCEPT !.pc = "clear", !.p = p, !.loc = creds[p],
                 !.pend = Settings(creds', active')]]
  /\ UNCHANGED <<now, disk, written, req>>
  /\ NoSync

\* clearCredentials deleting the entry and leaving the active source alone
ClearCredentialsBegin_KeepActive(t, f, p) ==
  /\ creds' = [creds EXCEPT ![p] = NoRec]
  /\ task' = [task EXCEPT ![t] =
       [f EXCEPT !.pc = "clear", !.p = p, !.loc = creds[p],
                 !.pend = Settings(creds', active)]]
  /\ UNCHANGED <<now, active, disk, written, req>>
  /\ NoSync

\* clearCredentials up to its await; loc keeps the entry that is deleted
ClearCredentialsBegin(t, f, p) ==
  /\ creds' = [creds EXCEPT ![p] = NoRec]
  /\ active' = IF active = p THEN NoProvider ELSE active
  /\ task' = [task EXCEPT ![t] =
       [f EXCEPT !.pc = "clear", !.p = p, !.loc = creds[p],
                 !.pend = Settings(creds', active')]]
  /\ UNCHANGED <<now, disk, written, req>>
  /\ NoSync

\* the sweep's loop from the top of an iteration to its next await
SweepPick(f) == IF f.todo = {} THEN {NoProvider} ELSE f.todo

SweepCont(f, q) ==
  IF f.todo = {}
    THEN Finish(f, Void)
    ELSE [f EXCEPT !.pc = "refresh", !.p = q, !.loc = f.snap[q],
                   !.todo = f.todo \ {q}, !.calls = @ + 1]

\* the sweep refreshing only the records that have expired
Eligible_ExpiredOnly(snap, thr) ==
  {q \in Providers : snap[q].has /\ snap[q].access # 0
                     /\ ~(snap[q].expires > thr - Window)}

\* the records of a snapshot the sweep refreshes
Eligible(snap, thr) ==
  {q \in Providers : snap[q].has /\ snap[q].access # 0
                     /\ ~(snap[q].expires > thr)}

\* ----------------------------------------------------------- getApiKey
\* getApiKey refreshing a record ahead of its expiry, as the sweep does
GetApiKeyRun_LookAhead(t, f, p) ==
  LET c == creds[p]
      g == [f EXCEPT !.op = "getApiKey", !.p = p]
  IN  /\ task' = [task EXCEPT ![t] =
            IF ~c.has THEN Finish(g, Absent)
            ELSE IF now + Window >= c.expires
              THEN [g EXCEPT !.pc = "refresh", !.loc = c, !.calls = @ + 1]
              ELSE Finish(g, Key(ProviderKey(c)))]
      /\ UNCHANGED <<now, creds, active, disk, written>>
      /\ NoSync

GetApiKeyRun(t, f, p) ==
  LET c == creds[p]
      g == [f EXCEPT !.op = "getApiKey", !.p = p]
  IN  /\ task' = [task EXCEPT ![t] =
            IF ~c.has THEN Finish(g, Absent)
            ELSE IF now >= c.expires
              THEN [g EXCEPT !.pc = "refresh", !.loc = c, !.calls = @ + 1]
              ELSE Finish(g, Key(ProviderKey(c)))]
      /\ UNCHANGED <<now, creds, active, disk, written>>
      /\ NoSync

GetApiKey(t, p) ==
  /\ CanStart(t)
  /\ GetApiKeyRun(t, NewFrame("getApiKey"), p)
  /\ UNCHANGED req

\* ------------------------------------------------ forceRefreshActiveToken
\* forceRefreshActiveToken refreshing only a record that has expired
ForceRefreshRun_OnlyIfExpired(t, f) ==
  LET p == active
      g == [f EXCEPT !.op = "force", !.p = p]
  IN  /\ task' = [task EXCEPT ![t] =
            IF p = NoProvider THEN Finish(g, Absent)
            ELSE IF ~(creds[p].has /\ creds[p].refresh)
              THEN Finish([g EXCEPT !.why = "norefresh"], Absent)
            ELSE IF now >= creds[p].expires
              THEN [g EXCEPT !.pc = "refresh", !.loc = creds[p],
                             !.calls = @ + 1]
              ELSE Finish(g, Key(ProviderKey(creds[p])))]
      /\ UNCHANGED <<now, creds, active, disk, written>>
      /\ NoSync

ForceRefreshRun(t, f) ==
  LET p == active
      g == [f EXCEPT !.op = "force", !.p = p]
  IN  /\ task' = [task EXCEPT ![t] =
            IF p = NoProvider THEN Finish(g, Absent)
            ELSE IF ~(creds[p].has /\ creds[p].refresh)
              THEN Finish([g EXCEPT !.why = "norefresh"], Absent)
              ELSE [g EXCEPT !.pc = "refresh", !.loc = creds[p],
                             !.calls = @ + 1]]
      /\ UNCHANGED <<now, creds, active, disk, written>>
      /\ NoSync

ForceRefreshActiveToken(t) ==
  /\ CanStart(t)
  /\ ForceRefreshRun(t, NewFrame("force"))
  /\ UNCHANGED req

\* ----------------------------------------------------- refreshAllIfNeeded
RefreshAllIfNeeded(t) ==
  /\ CanStart(t)
  /\ LET thr == now + Window
         f == [NewFrame("sweep") EXCEPT !.snap = creds, !.thr = thr,
                              !.todo = Eligible(creds, thr)]
     IN  \E q \in SweepPick(f) :
           task' = [task EXCEPT ![t] = SweepCont(f, q)]
  /\ UNCHANGED <<now, creds, active, disk, written, req>>
  /\ NoSync

\* ---------------------------------------------------------- login, logout
\* login of an unregistered id throws at once; otherwise provider.login runs
Login(t, p) ==
  /\ CanStart(t)
  /\ task' = [task EXCEPT ![t] =
       IF p \in Providers
         THEN [NewFrame("login") EXCEPT !.p = p, !.pc = "login"]
         ELSE Finish([NewFrame("login") EXCEPT !.p = p, !.why = "unknown"],
                     Threw)]
  /\ UNCHANGED <<now, creds, active, disk, written, req>>
  /\ NoSync

\* the caller's abort signal fires while provider.login is in progress
LoginAbort(t) ==
  /\ task[t].pc = "login"
  /\ task[t].why = ""
  /\ task' = [task EXCEPT ![t] = [@ EXCEPT !.why = "abort"]]
  /\ UNCHANGED <<now, creds, active, disk, written, req>>
  /\ NoSync

\* outcomes provider.login can have: it can always fail, and it fails when
\* the abort signal has fired
LoginOutcomes(f) == IF f.why = "abort" THEN {FALSE} ELSE {TRUE, FALSE}

\* the reason a provider.login call failed for
LoginFailure(f) == IF f.why = "abort" THEN "abort" ELSE "rejected"

\* login deleting the provider's record when provider.login fails, as
\* getApiKey does when a refresh fails
LoginDone_ClearOnFailure(t, ok, r) ==
  /\ task[t].pc = "login"
  /\ ok \in LoginOutcomes(task[t])
  /\ IF ok
       THEN SaveCredentialsBegin(t, task[t],
                                 task[t].p, Rec(Mint(t), r, now + Lifetime))
       ELSE ClearCredentialsBegin(t,
              [task[t] EXCEPT !.why = LoginFailure(task[t])], task[t].p)

\* provider.login settles: with a record, or with an error (rejected flow,
\* or the caller's abort signal)
LoginDone(t, ok, r) ==
  /\ task[t].pc = "login"
  /\ ok \in LoginOutcomes(task[t])
  /\ IF ok
       THEN SaveCredentialsBegin(t, task[t],
                                 task[t].p, Rec(Mint(t), r, now + Lifetime))
       ELSE /\ task' = [task EXCEPT ![t] =
                 Finish([task[t] EXCEPT !.why = LoginFailure(task[t])],
                        Threw)]
            /\ UNCHANGED <<now, creds, active, disk, written, req>>
            /\ NoSync

Logout(t, p) ==
  /\ CanStart(t)
  /\ ClearCredentialsBegin(t, NewFrame("logout"), p)

\* ------------------------------------------ provider.refreshToken settles
\* RefreshDone with every entry point keeping the record on failure
RefreshDone_RetainOnFailure(t, ok) ==
  LET f == task[t] IN
  /\ f.pc = "refresh"
  /\ ok \in RefreshOutcomes(f.loc)
  /\ IF ok
       THEN SaveCredentialsBegin(t, f, f.p,
                                 Rec(Mint(t), TRUE, now + Lifetime))
       ELSE /\ IF f.op = "sweep"
                 THEN \E q \in SweepPick(f) :
                        task' = [task EXCEPT ![t] =
                                   SweepCont([f EXCEPT !.why = "refresh"], q)]
                 ELSE task' = [task EXCEPT ![t] =
                                 Finish([f EXCEPT !.why = "refresh"], Absent)]
            /\ UNCHANGED <<now, creds, active, disk, written, req>>
            /\ NoSync

\* RefreshDone with every entry point clearing the record on failure
RefreshDone_ClearOnFailure(t, ok) ==
  LET f == task[t] IN
  /\ f.pc = "refresh"
  /\ ok \in RefreshOutcomes(f.loc)
  /\ IF ok
       THEN SaveCredentialsBegin(t, f, f.p,
                                 Rec(Mint(t), TRUE, now + Lifetime))
       ELSE ClearCredentialsBegin(t, [f EXCEPT !.why = "refresh"], f.p)

\* RefreshDone with the sweep giving up at the first refresh that fails
RefreshDone_SweepGivesUp(t, ok) ==
  LET f == task[t] IN
  /\ f.pc = "refresh"
  /\ ok \in RefreshOutcomes(f.loc)
  /\ IF ok
       THEN SaveCredentialsBegin(t, f, f.p,
                                 Rec(Mint(t), TRUE, now + Lifetime))
       ELSE IF f.op = "sweep"
         THEN /\ task' = [task EXCEPT ![t] =
                   Finish([f EXCEPT !.why = "refresh"], Threw)]
              /\ UNCHANGED <<now, creds, active, disk, written, req>>
              /\ NoSync
         ELSE ClearCredentialsBegin(t, [f EXCEPT !.why = "refresh"], f.p)

RefreshDone(t, ok) ==
  LET f == task[t] IN
  /\ f.pc = "refresh"
  /\ ok \in RefreshOutcomes(f.loc)
  /\ IF ok
       THEN SaveCredentialsBegin(t, f, f.p,
                                 Rec(Mint(t), TRUE, now + Lifetime))
       ELSE IF f.op = "sweep"
         THEN /\ \E q \in SweepPick(f) :
                   task' = [task EXCEPT ![t] =
                              SweepCont([f EXCEPT !.why = "refresh"], q)]
              /\ UNCHANGED <<now, creds, active, disk, written, req>>
              /\ NoSync
         ELSE ClearCredentialsBegin(t, [f EXCEPT !.why = "refresh"], f.p)

\* ------------------------- saveData called by saveCredentials settles
\* saveCredentials syncing whichever provider is saved
SaveDone_AlwaysSync(t, ok) ==
  LET f == task[t] IN
  /\ f.pc = "save"
  /\ IF ok
       THEN /\ disk' = f.pend
            /\ written' = written \cup Tokens(f.pend.creds)
            /\ UNCHANGED <<now, creds, active, req>>
            /\ SyncToLightRagServer
            /\ IF f.op = "sweep"
                 THEN \E q \in SweepPick(f) :
                        task' = [task EXCEPT ![t] = SweepCont(f, q)]
                 ELSE task' = [task EXCEPT ![t] =
                                 Finish(f, Key(ProviderKey(f.loc)))]
       ELSE IF f.op = "sweep"
         THEN /\ \E q \in SweepPick(f) :
                   task' = [task EXCEPT ![t] =
                              SweepCont([f EXCEPT !.why = "save"], q)]
              /\ UNCHANGED <<now, creds, active, disk, written, req>>
              /\ NoSync
       ELSE IF f.op = "login"
         THEN /\ task' = [task EXCEPT ![t] =
                            Finish([f EXCEPT !.why = "save"], Threw)]
              /\ UNCHANGED <<now, creds, active, disk, written, req>>
              /\ NoSync
         ELSE ClearCredentialsBegin(t, [f EXCEPT !.why = "save"], f.p)

SaveDone(t, ok) ==
  LET f == task[t] IN
  /\ f.pc = "save"
  /\ IF ok
       THEN /\ disk' = f.pend
            /\ written' = written \cup Tokens(f.pend.creds)
            /\ UNCHANGED <<now, creds, active, req>>
            /\ IF active = f.p THEN SyncToLightRagServer ELSE NoSync
            /\ IF f.op = "sweep"
                 THEN \E q \in SweepPick(f) :
                        task' = [task EXCEPT ![t] = SweepCont(f, q)]
                 ELSE task' = [task EXCEPT ![t] =
                                 Finish(f, Key(ProviderKey(f.loc)))]
       ELSE IF f.op = "sweep"
         THEN /\ \E q \in SweepPick(f) :
                   task' = [task EXCEPT ![t] =
                              SweepCont([f EXCEPT !.why = "save"], q)]
              /\ UNCHANGED <<now, creds, active, disk, written, req>>
              /\ NoSync
       ELSE IF f.op = "login"
         THEN /\ task' = [task EXCEPT ![t] =
                            Finish([f EXCEPT !.why = "save"], Threw)]
              /\ UNCHANGED <<now, creds, active, disk, written, req>>
              /\ NoSync
         ELSE ClearCredentialsBegin(t, [f EXCEPT !.why = "save"], f.p)

\* ------------------------ saveData called by clearCredentials settles
\* clearCredentials syncing before it calls saveData: the configuration is
\* written when the call starts and not again
ClearDone_NoSync(t, ok) ==
  LET f == task[t] IN
  /\ f.pc = "clear"
  /\ IF ok
       THEN /\ disk' = f.pend
            /\ written' = written \cup Tokens(f.pend.creds)
            /\ UNCHANGED <<now, creds, active, req>>
            /\ NoSync
            /\ task' = [task EXCEPT ![t] =
                 Finish(f, IF f.op = "logout" THEN Void ELSE Absent)]
       ELSE /\ task' = [task EXCEPT ![t] = Finish(f, Threw)]
            /\ UNCHANGED <<now, creds, active, disk, written, req>>
            /\ NoSync

ClearDone(t, ok) ==
  LET f == task[t] IN
  /\ f.pc = "clear"
  /\ IF ok
       THEN /\ disk' = f.pend
            /\ written' = written \cup Tokens(f.pend.creds)
            /\ UNCHANGED <<now, creds, active, req>>
            /\ SyncToLightRagServer
            /\ task' = [task EXCEPT ![t] =
                 Finish(f, IF f.op = "logout" THEN Void ELSE Absent)]
       ELSE /\ task' = [task EXCEPT ![t] = Finish(f, Threw)]
            /\ UNCHANGED <<now, creds, active, disk, written, req>>
            /\ NoSync

\* ------------------------------------------------- the external service
\* the restart timeout fires: updateEnvFile, then startLightRagServer up to
\* its await of isPortInUse (updateEnvFile once more)
RestartTimer ==
  /\ timers > 0
  /\ timers' = timers - 1
  /\ envFile' = GenEnvOAuth(creds, active)
  /\ starts' = starts + 1
  /\ UNCHANGED <<now, creds, active, disk, written, task, req, serverUp,
                 spawns, listening, serverEnv, generated, listed,
                 data, procs, assist>>

\* isPortInUse settles: startLightRagServer returns when the port is taken
PortProbed ==
  /\ starts > 0
  /\ starts' = starts - 1
  /\ spawns' = IF listening = "none" THEN spawns + 1 ELSE spawns
  /\ UNCHANGED <<now, creds, active, disk, written, task, req, envFile,
                 serverUp, timers, listening, serverEnv, generated, listed,
                 data, procs, assist>>

\* startLightRagServer spawns the service, which reads the configuration
\* file and listens; a process that finds the port taken does not listen
StartLightRagServerSpawn ==
  /\ spawns > 0
  /\ spawns' = spawns - 1
  /\ serverUp' = TRUE
  /\ listening' = IF listening = "none" THEN "own" ELSE "other"
  /\ serverEnv' = IF listening = "none" THEN envFile ELSE serverEnv
  /\ procs' = procs + 1
  /\ UNCHANGED <<now, creds, active, disk, written, task, req, envFile,
                 timers, starts, generated, listed, data, assist>>

\* ------------------------------------------------------- the environment
Tick ==
  /\ now < MaxTicks
  /\ now' = now + 1
  /\ UNCHANGED <<creds, active, disk, written, envFile, serverUp, timers, task,
               req, starts, spawns, listening, serverEnv, generated, listed,
                 data, procs, assist>>

\* ------------------------------------------------- read-only projections
\* the environment variable the access token of a provider is written to
ApiKeyVar(a) ==
  IF a = "anthropic" THEN "ANTHROPIC_API_KEY" ELSE "OPENAI_API_KEY"

\* a line NAME=value of the configuration; the value is text or a number
Line(k, str, num) == [k |-> k, str |-> str, num |-> num]

\* generateEnvConfig with the time of generation written into the text
GenerateEnvConfig_Stamped(c, a) ==
  <<Line("HOST", "0.0.0.0", 0), Line("PORT", "", 9621),
    Line("GENERATED_AT", "", now)>>
  \o (IF a # NoProvider /\ c[a].has
        THEN <<Line("OAUTH_PROVIDER", a, 0),
               Line(ApiKeyVar(a), "", c[a].access),
               Line("OAUTH_ACCESS_TOKEN", "", c[a].access)>>
        ELSE <<>>)

\* generateEnvConfig: the text of the configuration, line by line; the
\* lines that come from settings the model keeps fixed are represented by
\* HOST and PORT
GenerateEnvConfig(c, a) ==
  <<Line("HOST", "0.0.0.0", 0), Line("PORT", "", 9621)>>
  \o (IF a # NoProvider /\ c[a].has
        THEN <<Line("OAUTH_PROVIDER", a, 0),
               Line(ApiKeyVar(a), "", c[a].access),
               Line("OAUTH_ACCESS_TOKEN", "", c[a].access)>>
        ELSE <<>>)

\* a call of generateEnvConfig
GenerateEnvConfigCall ==
  /\ Len(generated) < MaxViews
  /\ generated' = Append(generated,
       [at |-> now, from |-> Settings(creds, active),
        text |-> GenerateEnvConfig(creds, active)])
  /\ UNCHANGED <<now, creds, active, disk, written, envFile, serverUp, timers,
                 task, req, starts, spawns, listening, serverEnv, listed,
                 data, procs, assist>>

\* listProviders reporting a provider logged in only when its record can be
\* refreshed
ListProviders_ByRefreshToken ==
  /\ Len(listed) < MaxViews
  /\ listed' = Append(listed,
       [p \in Providers |-> creds[p].has /\ creds[p].refresh])
  /\ UNCHANGED <<now, creds, active, disk, written, envFile, serverUp, timers,
                 task, req, starts, spawns, listening, serverEnv, generated,
                 data, procs, assist>>

\* a call of listProviders: loggedIn of every registered provider
ListProviders ==
  /\ Len(listed) < MaxViews
  /\ listed' = Append(listed,
       [p \in Providers |-> creds[p].has /\ creds[p].access # 0])
  /\ UNCHANGED <<now, creds, active, disk, written, envFile, serverUp, timers,
                 task, req, starts, spawns, listening, serverEnv, generated,
                 data, procs, assist>>

\* ===================================================================
\* RAGEngine.processQuery (global strategy)
\* ===================================================================

\* ------------------------------------------------- settings migrations
\* the values a field of the stored settings can have
MigValues ==
  [oauthCredentials : {"undefined", "null", "0", "{}", "{r}"},
   lightRagOAuthProvider : {"undefined", "null", "0", "''", "'p'"},
   enableProactiveDiscovery : {"undefined", "null", "false", "true"},
   oauthModels : {"undefined", "null", "{}", "[]", "[m]"},
   chatModels : {"undefined", "[m]"},
   version : {12, 13}]

\* JavaScript's !v is false
Truthy(v) == v \notin {"undefined", "null", "false", "0", "''"}

IsArray(v) == v \in {"[]", "[m]"}

\* migrateFrom12To13 setting the three fields to their defaults always
MigrateFrom12To13_Overwrite(d) ==
  [d EXCEPT !.version = 13,
            !.oauthCredentials = "{}",
            !.lightRagOAuthProvider = "''",
            !.enableProactiveDiscovery = "false"]

MigrateFrom12To13(d) ==
  [d EXCEPT !.version = 13,
            !.oauthCredentials = IF ~Truthy(@) THEN "{}" ELSE @,
            !.lightRagOAuthProvider = IF ~Truthy(@) THEN "''" ELSE @,
            !.enableProactiveDiscovery =
               IF @ = "undefined" THEN "false" ELSE @]

MigrateFrom13To14(d) ==
  [d EXCEPT !.version = 14,
            !.oauthModels = IF ~IsArray(@) THEN "[]" ELSE @]

\* the object the next migration step is called with
MigArg == IF data.stage = "loaded" THEN data.input ELSE data.output

\* a step copies the object it is given ({ ...data }), assigns to the copy
\* and returns it
Migrate12To13Call ==
  /\ data.stage = "loaded"
  /\ MigArg.version = 12
  /\ data' = [stage |-> "v13", steps |-> data.steps + 1, input |-> MigArg,
              output |-> MigrateFrom12To13(MigArg)]
  /\ UNCHANGED <<now, creds, active, disk, written, envFile, serverUp, timers,
                 task, req, starts, spawns, listening, serverEnv, generated,
                 listed, procs, assist>>

Migrate13To14Call ==
  /\ data.stage \in {"loaded", "v13"}
  /\ MigArg.version = 13
  /\ data' = [stage |-> "v14", steps |-> data.steps + 1, input |-> MigArg,
              output |-> MigrateFrom13To14(MigArg)]
  /\ UNCHANGED <<now, creds, active, disk, written, envFile, serverUp, timers,
                 task, req, starts, spawns, listening, serverEnv, generated,
                 listed, procs, assist>>

\* ------------------------------------------------- callCloudCodeAssist
MAX_RETRIES == 2

\* what a request of callCloudCodeAssist can end in: obsidianFetch rejecting
\* (status NoResponse), a 2xx response whose body yields a text, yields no
\* text, or makes response.json() or extractCCAText throw, and an error
\* status whose text matches the rate-limit/overload pattern (msg) or not
NoResponse == 0
AssistResponses ==
  {[status |-> NoResponse, msg |-> FALSE, body |-> "none"]}
    \cup [status : {200}, msg : {FALSE},
          body : {"text", "empty", "unreadable"}]
    \cup [status : {400, 401, 403, 429, 500, 502, 503, 504},
          msg : BOOLEAN, body : {"none"}]

\* isRetryableStatus taking every error status for retryable
IsRetryableStatus_AnyError(status, msg) == status >= 400

IsRetryableStatus(status, msg) ==
  status \in {429, 500, 502, 503, 504} \/ msg

\* callCloudCodeAssist up to the await of its first request
CallCloudCodeAssist ==
  /\ assist.pc = "idle"
  /\ assist' = [assist EXCEPT !.pc = "wait", !.sends = 1]
  /\ UNCHANGED <<now, creds, active, disk, written, envFile, serverUp, timers,
                 task, req, starts, spawns, listening, serverEnv, generated,
                 listed, data, procs>>

\* the request of this attempt settles: the call returns, throws, or sleeps
\* before the next attempt; after the last attempt it returns '' (empty
\* text) or throws lastError
AssistResponse(r) ==
  LET more == assist.attempt < MAX_RETRIES
      a == [assist EXCEPT !.log = Append(@, r)]
      Retry == IF more THEN [a EXCEPT !.pc = "sleep"]
                       ELSE [a EXCEPT !.pc = "done", !.res = "error"]
  IN  /\ assist.pc = "wait"
      /\ assist' =
           IF r.status = NoResponse THEN Retry
           ELSE IF r.status >= 200 /\ r.status < 300
             THEN IF r.body = "text"
                    THEN [a EXCEPT !.pc = "done", !.res = "text"]
                  ELSE IF r.body = "empty"
                    THEN IF more THEN [a EXCEPT !.pc = "sleep"]
                                 ELSE [a EXCEPT !.pc = "done", !.res = "empty"]
                    ELSE Retry
           ELSE IF r.status = 401 \/ r.status = 403
             THEN [a EXCEPT !.pc = "done", !.res = "error"]
           ELSE IF IsRetryableStatus(r.status, r.msg)
             THEN Retry
             ELSE [a EXCEPT !.pc = "done", !.res = "error"]
      /\ UNCHANGED <<now, creds, active, disk, written, envFile, serverUp,
                     timers, task, req, starts, spawns, listening, serverEnv,
                     generated, listed, data, procs>>

\* the sleep is over: the next iteration of the loop sends its request
AssistWake ==
  /\ assist.pc = "sleep"
  /\ assist' = [assist EXCEPT !.pc = "wait", !.attempt = @ + 1,
                              !.sends = @ + 1]
  /\ UNCHANGED <<now, creds, active, disk, written, envFile, serverUp, timers,
                 task, req, starts, spawns, listening, serverEnv, generated,
                 listed, data, procs>>

\* HTTP statuses the consumer service answers with; NetErr stands for
\* requestUrl rejecting without a response
NetErr == 0
Statuses == {200, 401, 403, 500, NetErr}

\* every HTTP error status taken for an authentication failure
IsAuth_AnyHttpError(st) == st >= 400

IsAuth(st) == st = 401 \/ st = 403

\* performQuery throws on a status >= 400 and when requestUrl rejects
Failed(st) == st >= 400 \/ st = NetErr

\* getRequestHeaders on the result of oauthTokenResolver(); a resolver that
\* throws or returns nothing leaves the OAuth headers out
RequestHeaders(f) ==
  IF f.res.kind = "key" THEN [prov |-> f.p, key |-> f.res.key]
                        ELSE NoHeaders

Outcome(k, c, r) == [kind |-> k, cause |-> c, relogin |-> r]

\* the retry sent without the refreshed token
RefreshedHeaders_Stale(f) == NoHeaders

\* the headers of the retry, built from what oauthForceRefresh() returned
RefreshedHeaders(f) == [prov |-> f.p, key |-> f.res.key]

\* the error of the retry surfaced in place of the first error
RetryFailure_LastError(r, st) == Outcome("error", st, r.forces > 0)

\* what processQuery ends with when its second attempt was answered st and
\* failed: after a force-refresh the first error is thrown again (with a
\* notice to re-login), after a restart the error of the second attempt
RetryFailure(r, st) ==
  IF r.forces > 0 THEN Outcome("error", r.first, TRUE)
                  ELSE Outcome("error", st, FALSE)

\* getActiveLightRagApiKey up to its first await
GetActiveLightRagApiKey(t, f) ==
  IF active = NoProvider
    THEN /\ task' = [task EXCEPT ![t] =
               Finish([f EXCEPT !.op = "getApiKey"], Absent)]
         /\ UNCHANGED <<now, creds, active, disk, written>>
         /\ NoSync
    ELSE GetApiKeyRun(t, f, active)

\* processQuery starts: performQuery() asks for the request headers
QueryStart(t, auto) ==
  /\ CanStart(t)
  /\ \A u \in Tasks : req[u].wpc = "none"
  /\ req' = [req EXCEPT ![t] =
       [NoReq EXCEPT !.kind = "query", !.wpc = "hdr", !.auto = auto]]
  /\ GetActiveLightRagApiKey(t, NewFrame("getApiKey"))

\* insertDocument ("insert") or uploadDocument ("upload") asks for the
\* request headers
DocumentStart(t, kind) ==
  /\ CanStart(t)
  /\ \A u \in Tasks : req[u].wpc = "none"
  /\ req' = [req EXCEPT ![t] = [NoReq EXCEPT !.kind = kind, !.wpc = "hdr"]]
  /\ GetActiveLightRagApiKey(t, NewFrame("getApiKey"))

\* the request sent without the OAuth headers
Send_NoOAuthHeaders(t) ==
  /\ req[t].wpc = "hdr"
  /\ task[t].pc = "done"
  /\ req' = [req EXCEPT ![t] =
       [@ EXCEPT !.wpc = "wait", !.hdr = NoHeaders, !.sends = @ + 1]]
  /\ UNCHANGED <<now, creds, active, disk, written, task>>
  /\ NoSync

\* the headers are there: the request is sent
Send(t) ==
  /\ req[t].wpc = "hdr"
  /\ task[t].pc = "done"
  /\ req' = [req EXCEPT ![t] =
       [@ EXCEPT !.wpc = "wait", !.hdr = RequestHeaders(task[t]),
                 !.sends = @ + 1]]
  /\ UNCHANGED <<now, creds, active, disk, written, task>>
  /\ NoSync

\* the request that is in flight is answered
Response(t, st) ==
  LET r == req[t] IN
  /\ r.wpc = "wait"
  /\ IF r.kind # "query"
       THEN \* insertDocument, uploadDocument: one request, true or false
         /\ req' = [req EXCEPT ![t] =
              [r EXCEPT !.wpc = "done", !.first = st,
                 !.out = Outcome(IF Failed(st) THEN "error" ELSE "ok",
                                 st, FALSE)]]
         /\ UNCHANGED <<now, creds, active, disk, written, task>>
         /\ NoSync
     ELSE IF r.sends = 1
       THEN \* the first attempt
         IF ~Failed(st)
           THEN /\ req' = [req EXCEPT ![t] =
                     [r EXCEPT !.wpc = "done", !.first = st,
                               !.out = Outcome("ok", st, FALSE)]]
                /\ UNCHANGED <<now, creds, active, disk, written, task>>
                /\ NoSync
         ELSE IF IsAuth(st)
           THEN /\ req' = [req EXCEPT ![t] =
                     [r EXCEPT !.wpc = "force", !.first = st,
                               !.forces = @ + 1]]
                /\ ForceRefreshRun(t, [NewFrame("force") EXCEPT
                                         !.calls = task[t].calls])
         ELSE IF r.auto
           THEN \* restartServerCallback, then a 4 second wait
                /\ req' = [req EXCEPT ![t] =
                     [r EXCEPT !.wpc = "wake", !.first = st,
                               !.restarts = @ + 1]]
                /\ RestartLightRagServer
                /\ UNCHANGED <<now, creds, active, disk, written, task,
                               envFile>>
           ELSE /\ req' = [req EXCEPT ![t] =
                     [r EXCEPT !.wpc = "done", !.first = st,
                               !.out = Outcome("error", st, FALSE)]]
                /\ UNCHANGED <<now, creds, active, disk, written, task>>
                /\ NoSync
       ELSE \* the second attempt: after a force-refresh its failure is
            \* replaced by the first error, after a restart it is final
         /\ req' = [req EXCEPT ![t] =
              [r EXCEPT !.wpc = "done", !.second = st,
                 !.out = IF ~Failed(st) THEN Outcome("ok", st, FALSE)
                                        ELSE RetryFailure(r, st)]]
         /\ UNCHANGED <<now, creds, active, disk, written, task>>
         /\ NoSync

\* oauthForceRefresh() has settled
AfterForce(t) ==
  LET r == req[t] IN
  /\ r.wpc = "force"
  /\ task[t].pc = "done"
  /\ req' = [req EXCEPT ![t] =
       IF task[t].res.kind = "key"
         THEN [r EXCEPT !.wpc = "wait", !.sends = @ + 1,
                        !.hdr = RefreshedHeaders(task[t])]
         ELSE [r EXCEPT !.wpc = "done",
                        !.out = Outcome("error", r.first, TRUE)]]
  /\ UNCHANGED <<now, creds, active, disk, written, task>>
  /\ NoSync

\* the 4 second wait after the restart is over: performQuery() again
AfterWake(t) ==
  /\ req[t].wpc = "wake"
  /\ req' = [req EXCEPT ![t] = [@ EXCEPT !.wpc = "hdr"]]
  /\ GetActiveLightRagApiKey(t, [NewFrame("getApiKey") EXCEPT
                                   !.calls = task[t].calls])

\* ===================================================================
\* Properties
\* ===================================================================

Op(t) == task[t].op
Done(t) == task[t].pc = "done"

\* t1 was suspended at an await when t2 started
Overlap(t1, t2) == t1 \in task[t2].conc

\* C1: when calls of getApiKey(P) overlap and the first of them found P's
\* record expired (it called provider.refreshToken), no later one calls
\* provider.refreshToken again, and all of them return the same key.
C1_OneRefreshSameKey ==
  \A t1, t2 \in Tasks :
    ( /\ Op(t1) = "getApiKey" /\ Op(t2) = "getApiKey"
      /\ task[t1].p = task[t2].p
      /\ Overlap(t1, t2)
      /\ task[t1].calls = 1 )
    => /\ task[t2].calls = 0
       /\ (Done(t1) /\ Done(t2) => task[t1].res = task[t2].res)

\* C2: at most one provider.refreshToken call is outstanding per provider
\* id, whichever entry points issued the calls.
C2_OneOutstandingRefresh ==
  \A t1, t2 \in Tasks :
    ( /\ t1 # t2
      /\ task[t1].pc = "refresh"
      /\ task[t2].pc = "refresh" )
    => task[t1].p # task[t2].p

\* the step in which call t handles the failure of its refreshToken call
RefreshFailedStep(t) ==
  /\ task[t].pc = "refresh"
  /\ task'[t] # task[t]
  /\ task'[t].pc # "save"

\* C3: when provider.refreshToken fails in getApiKey(P) or in
\* forceRefreshActiveToken(), the call removes P's record from the store
\* (and with it the designation of P as active source), and when the call
\* returns it returns absent.
C3_FatalRefreshFailure ==
  [][\A t \in Tasks :
       /\ (RefreshFailedStep(t) /\ Op(t) \in {"getApiKey", "force"})
            => /\ ~creds'[task[t].p].has
               /\ active' # task[t].p
       /\ ( /\ task'[t].pc = "done"
            /\ task'[t].op \in {"getApiKey", "force"}
            /\ task'[t].why = "refresh"
            /\ task'[t].res # Threw )
            => task'[t].res = Absent]_vars

C3_Witness ==
  \E t1, t2 \in Tasks :
    /\ Op(t1) = "getApiKey" /\ Done(t1) /\ task[t1].why = "refresh"
    /\ task[t1].res = Absent /\ ~creds[task[t1].p].has
    /\ Op(t2) = "force" /\ Done(t2) /\ task[t2].why = "refresh"
    /\ task[t2].res = Absent /\ ~creds[task[t2].p].has

\* C4: when provider.refreshToken fails for P in refreshAllIfNeeded, the
\* sweep leaves P's record, every other record and the active source as they
\* are.
C4_SweepFailureRetains ==
  [][\A t \in Tasks :
       (RefreshFailedStep(t) /\ Op(t) = "sweep")
         => /\ creds' = creds
            /\ active' = active
            /\ disk' = disk]_vars

C4_Witness ==
  \E t \in Tasks :
    /\ Op(t) = "sweep" /\ Done(t) /\ task[t].why = "refresh"
    /\ task[t].calls = 2
    /\ \E p \in Providers :
         /\ creds[p] = Rec(InitToken(p), TRUE, 10)
         /\ disk.creds[p] = creds[p]
         /\ active = p

\* C5: logout(P) removes P's record and no other record, and clears the
\* active source if and only if P was the active source.
C5_LogoutFrame ==
  [][\A t \in Tasks :
       (task'[t] # task[t] /\ task'[t].op = "logout")
         => IF task[t].pc = "idle"
              THEN /\ creds' = [creds EXCEPT ![task'[t].p] = NoRec]
                   /\ active' = IF active = task'[t].p
                                  THEN NoProvider ELSE active
              ELSE /\ creds' = creds
                   /\ active' = active]_vars

C5_Witness ==
  \E t \in Tasks, q \in Providers :
    /\ Op(t) = "logout" /\ Done(t) /\ task[t].res = Void
    /\ q # task[t].p
    /\ ~creds[task[t].p].has
    /\ creds[q].has /\ active = q
    /\ disk = Settings(creds, active)

\* C9: forceRefreshActiveToken() on an active provider whose record has no
\* refresh token clears the record and the active source and returns absent.
C9_MissingRefreshTokenClears ==
  [][\A t \in Tasks :
       (task'[t].why = "norefresh" /\ task[t].why # "norefresh")
         => /\ ~creds'[task'[t].p].has
            /\ active' # task'[t].p
            /\ task'[t].res = Absent]_vars

\* a token issued by provider.refreshToken (a login issues 10 * t)
Refreshed(k) == k >= 10 /\ k % 10 # 0

\* C10: a call of getApiKey never returns a key of a record that has not
\* been written through saveData.
C10_PersistThenReturn ==
  \A t \in Tasks :
    (Op(t) = "getApiKey" /\ Done(t) /\ task[t].res.kind = "key")
      => (Refreshed(task[t].res.key) => task[t].res.key \in written)

\* C6: in processQuery, a first attempt answered 401/403 leads to exactly one call of
\* forceRefreshActiveToken; when that call yields a key the request is sent
\* exactly once more, with the provider id and key the call returned in its
\* headers; when it yields none the request is not sent again; the request
\* is never sent a third time.
C6_RetryOnceOnAuthFailure ==
  \A t \in Tasks :
    /\ req[t].sends <= 2
    /\ req[t].forces <= 1
    /\ (req[t].kind = "query" /\ req[t].first \in {401, 403})
         => req[t].forces = 1
    /\ (req[t].forces = 1 /\ req[t].wpc \in {"wait", "done"})
         => /\ task[t].op = "force" /\ task[t].pc = "done"
            /\ IF task[t].res.kind = "key"
                 THEN /\ req[t].sends = 2
                      /\ req[t].hdr.prov = task[t].p
                      /\ req[t].hdr.key = task[t].res.key
                 ELSE req[t].sends = 1

C6_Witness ==
  \E t \in Tasks :
    /\ req[t].wpc = "done" /\ req[t].first = 401 /\ req[t].second = 403
    /\ req[t].sends = 2 /\ req[t].forces = 1
    /\ req[t].hdr.key = task[t].res.key /\ Refreshed(req[t].hdr.key)

\* C7: the wrapper calls forceRefreshActiveToken only after an answer of
\* 401 or 403, never after another failure of the request.
C7_ForceOnlyOnAuthFailure ==
  \A t \in Tasks :
    /\ req[t].forces > 0 => req[t].first \in {401, 403}
    /\ (req[t].wpc # "none" /\ task[t].op = "force")
         => req[t].first \in {401, 403}

C7_Witness ==
  \E t \in Tasks :
    /\ req[t].kind = "query"
    /\ req[t].wpc = "done" /\ req[t].first \in {500, NetErr}
    /\ req[t].out.kind = "error" /\ req[t].forces = 0
    /\ active # NoProvider /\ creds[active].refresh

\* C8: when the first attempt was answered 401/403 and the force-refresh
\* yielded no key or the retry failed, processQuery ends with the error of
\* the first attempt and the notice to re-login; a request whose first
\* attempt failed otherwise never ends that way.
C8_AuthRejectionSurfaced ==
  \A t \in Tasks :
    (req[t].kind = "query" /\ req[t].wpc = "done") =>
      /\ ( /\ req[t].first \in {401, 403}
           /\ (req[t].sends = 1 \/ req[t].second >= 400
                 \/ req[t].second = NetErr) )
           => req[t].out = [kind |-> "error", cause |-> req[t].first,
                            relogin |-> TRUE]
      /\ (req[t].out.kind = "error" /\ req[t].first \notin {401, 403})
           => ~req[t].out.relogin

C8_Witness ==
  \E t \in Tasks :
    /\ req[t].wpc = "done" /\ req[t].first = 403 /\ req[t].second = 500
    /\ req[t].out = [kind |-> "error", cause |-> 403, relogin |-> TRUE]

\* the step in which call t of operation op starts
Starts(t, op) == task[t].pc = "idle" /\ task'[t].op = op

\* the providers a sweep that has just started is going to refresh
SweepPlan(f) ==
  f.todo \cup (IF f.pc = "refresh" THEN {f.p} ELSE {})

\* C11: refreshAllIfNeeded calls provider.refreshToken for a stored record
\* if and only if the record's expires is no later than 10 minutes after the
\* instant the sweep starts, and the sweep changes no record it does not
\* refresh.
C11_SweepWindow ==
  [][\A t \in Tasks :
       /\ Starts(t, "sweep")
            => /\ SweepPlan(task'[t])
                    = {q \in Providers : /\ creds[q].has
                                         /\ creds[q].expires <= now + 10}
               /\ task'[t].calls + Cardinality(task'[t].todo)
                    = Cardinality(SweepPlan(task'[t]))
       /\ (task[t].op = "sweep" /\ task'[t] # task[t])
            => /\ task'[t].calls + Cardinality(task'[t].todo)
                    = task[t].calls + Cardinality(task[t].todo)
               /\ task'[t].pc = "done" => task[t].todo = {}
               /\ \A q \in Providers :
                    creds'[q] # creds[q]
                      => q = task[t].p /\ q \notin task[t].todo]_vars

C11_Witness ==
  \E t \in Tasks :
    /\ Op(t) = "sweep" /\ task[t].pc = "save" /\ task[t].calls = 1
    /\ task[t].todo = {} /\ now = 1 /\ task[t].thr = now + Window
    /\ \A u \in Tasks \ {t} : task[u].pc = "idle"
    /\ disk.creds["openai-codex"] = Rec(2, TRUE, 10)
    /\ creds["openai-codex"] = Rec(Mint(t), TRUE, now + Lifetime)
    /\ creds["anthropic"] = Rec(1, TRUE, 20)
    /\ disk.creds["anthropic"] = creds["anthropic"]

C13_LazyRefresh ==
  [][\A t \in Tasks :
       Starts(t, "getApiKey")
         => LET c == creds[task'[t].p] IN
            /\ creds' = creds /\ active' = active /\ disk' = disk
            /\ envFile' = envFile /\ timers' = timers
            /\ ~c.has
                 => /\ task'[t].pc = "done" /\ task'[t].res = Absent
                    /\ task'[t].calls = 0
            /\ (c.has /\ c.expires < now)
                 => /\ task'[t].pc = "refresh" /\ task'[t].calls = 1
                    /\ task'[t].loc = c
            /\ (c.has /\ c.expires > now)
                 => /\ task'[t].pc = "done" /\ task'[t].calls = 0
                    /\ task'[t].res = Key(c.access)]_vars

C13_Witness ==
  \E p, q \in Providers :
    /\ Op(1) = "getApiKey" /\ Done(1) /\ task[1].p = p
    /\ task[1].calls = 0 /\ task[1].res = Key(InitToken(p))
    /\ creds[p] = Rec(InitToken(p), TRUE, 10) /\ now = 1
    /\ Op(2) = "getApiKey" /\ task[2].pc = "refresh" /\ task[2].p = q
    /\ task[2].calls = 1 /\ task[2].loc = Rec(InitToken(q), TRUE, 0 - 1)
    /\ disk = Settings(creds, active)

\* the step of call t is a delivery sync: the configuration is written from
\* the store and a restart is requested
Synced ==
  /\ timers' = timers + 1
  /\ envFile' = GenEnvOAuth(creds', active')

\* the step in which the saveData call of saveCredentials in call t resolves
\* (a login, getApiKey or forceRefreshActiveToken then returns the record's
\* key; a sweep goes on without noting a failure)
SavedStep(t) ==
  /\ task[t].pc = "save"
  /\ task'[t] # task[t]
  /\ IF task[t].op = "sweep"
       THEN disk' # disk \/ (task'[t].why = task[t].why
                               /\ task[t].why # "save")
       ELSE task'[t].res.kind = "key"

\* C14: when saveData has written the record a login or a refresh of P
\* produced, the call triggers a delivery sync if and only if P is the
\* active source at that moment; a call triggers no sync before the record
\* is on disk, and none for a provider that is not the active source.
C14_SyncIffActiveAfterPersist ==
  [][\A t \in Tasks :
       (task[t].op \in {"login", "getApiKey", "force", "sweep"}
          /\ task'[t] # task[t])
         => /\ task'[t].pc = "save" => (timers' = timers /\ envFile' = envFile)
            /\ SavedStep(t)
                 => /\ disk'.creds[task[t].p] = task[t].loc
                    /\ active = task[t].p => Synced
                    /\ active # task[t].p
                         => (timers' = timers /\ envFile' = envFile)
            /\ (task[t].pc = "save" /\ timers' # timers)
                 => /\ disk'.creds[task[t].p] = task[t].loc
                    /\ active = task[t].p]_vars

C14_Witness ==
  \E t, u \in Tasks :
    /\ Op(t) = "login" /\ Done(t) /\ task[t].res.kind = "key"
    /\ active = task[t].p
    /\ creds[active].access = task[t].res.key
    /\ disk.creds[active] = creds[active]
    /\ envFile = [provider |-> active, access |-> task[t].res.key]
    /\ Op(u) = "getApiKey" /\ Done(u) /\ Refreshed(task[u].res.key)
    /\ task[u].p # active /\ disk.creds[task[u].p].access = task[u].res.key
    /\ timers = 1

\* C15: logout(P) triggers no sync before saveData has written the store
\* without P's record, triggers one when it has, and the configuration that
\* sync writes is generated from the store of that moment and does not hold
\* the access token of the record that was removed.
C15_LogoutSyncAfterPersist ==
  [][\A t \in Tasks :
       /\ Starts(t, "logout") => (timers' = timers /\ envFile' = envFile)
       /\ (task[t].op = "logout" /\ task[t].pc = "clear"
             /\ task'[t].res = Void)
            => /\ ~disk'.creds[task[t].p].has
               /\ Synced
               /\ task[t].loc.has => envFile'.access # task[t].loc.access]_vars

C15_Witness ==
  \E t \in Tasks, q \in Providers :
    /\ Op(t) = "logout" /\ Done(t) /\ task[t].res = Void
    /\ \A u \in Tasks \ {t} : task[u].pc = "idle"
    /\ InitToken(task[t].p) \in written /\ ~creds[task[t].p].has
    /\ ~disk.creds[task[t].p].has
    /\ timers = 1 /\ active = NoProvider
    /\ creds[q].has
    /\ envFile = [provider |-> NoProvider, access |-> 0]

\* C16: a delivery sync writes the configuration from the store in the step
\* that requests the restart; when the service is spawned the configuration
\* file holds the access token of the active provider's record; and a start
\* that returns without spawning leaves a service running that has read the
\* configuration file as it is.
C16_ConfigBeforeRestart ==
  [][/\ timers' = timers + 1 => envFile' = GenEnvOAuth(creds', active')
     /\ spawns' < spawns => envFile = GenEnvOAuth(creds, active)
     /\ (starts' < starts /\ spawns' = spawns) => serverEnv = envFile]_vars

Alone(t) == \A u \in Tasks \ {t} : task[u].pc = "idle"

\* C19: listProviders() changes neither the store nor the active source nor
\* the configuration and starts no refresh and no sync; it reports a
\* provider logged in if and only if the store holds a record of it with an
\* access token: so after a login of P that succeeded P is reported logged
\* in, and after a logout of P it is not.
C19_ListProvidersReadOnly ==
  [][Len(listed') > Len(listed)
       => LET l == listed'[Len(listed')] IN
          /\ creds' = creds /\ active' = active /\ disk' = disk
          /\ envFile' = envFile /\ timers' = timers /\ task' = task
          /\ \A p \in Providers :
               l[p] <=> (creds[p].has /\ creds[p].access # 0)
          /\ \A t \in Tasks :
               (Alone(t) /\ Done(t))
                 => /\ (Op(t) = "login" /\ task[t].res.kind = "key")
                         => l[task[t].p]
                    /\ (Op(t) = "logout" /\ task[t].res = Void)
                         => ~l[task[t].p]]_vars

C19_Witness ==
  \E p \in Providers :
    /\ Len(listed) = 2
    /\ ~listed[1][p] /\ listed[2][p]
    /\ Op(1) = "login" /\ Done(1) /\ task[1].p = p
    /\ task[1].res.kind = "key" /\ Alone(1)
    /\ ~creds[p].refresh

C21_SameProtocolForEveryCall ==
  \A t \in Tasks :
    (req[t].wpc = "done" /\ req[t].first \in {401, 403})
      => /\ req[t].forces = 1
         /\ task[t].op = "force" /\ task[t].pc = "done"
         /\ task[t].res.kind = "key" => req[t].sends = 2

\* C22: a request whose first attempt failed with a non-auth failure (a
\* status >= 400 other than 401/403, or no response) is not sent again and
\* the wrapper does not restart the service.
C22_NonAuthFailurePropagates ==
  \A t \in Tasks :
    (Failed(req[t].first) /\ ~IsAuth(req[t].first))
      => (req[t].sends = 1 /\ req[t].restarts = 0)

\* settings in which the provider designated as active source has a record
Designated(s) == s.active # NoProvider => s.creds[s.active].has

\* C23: a provider whose record has been removed (by logout or by a fatal
\* refresh failure) is not the active source in any state of the settings:
\* not in memory, not in a snapshot handed to saveData, not on disk.
C23_ActiveClearedWithRecord ==
  /\ Designated(Settings(creds, active))
  /\ Designated(disk)
  /\ \A t \in Tasks :
       task[t].pc \in {"save", "clear"} => Designated(task[t].pend)

\* a forced refresh of the active source failed and removed its record
C23_Witness ==
  \E t \in Tasks, p \in Providers :
    /\ Op(t) = "force" /\ Done(t) /\ task[t].p = p
    /\ task[t].res = Absent /\ task[t].why = "refresh"
    /\ ~creds[p].has /\ active = NoProvider
    /\ ~disk.creds[p].has /\ disk.active = NoProvider

\* C24: refreshAllIfNeeded never throws: when the refresh of one provider
\* (or the save that follows it) fails, the sweep goes on to a provider it
\* has not tried yet, and it ends, without an error, only when none is left.
C24_SweepSwallowsFailures ==
  [][\A t \in Tasks :
       /\ (task'[t].op = "sweep" /\ task'[t].pc = "done")
            => task'[t].res = Void
       /\ ( /\ task[t].op = "sweep" /\ task[t].pc \in {"refresh", "save"}
            /\ task'[t] # task[t] )
            => \/ task[t].pc = "refresh" /\ task'[t].pc = "save"
               \/ /\ task[t].todo # {}
                  /\ task'[t].pc = "refresh"
                  /\ task'[t].p \in task[t].todo
                  /\ task'[t].todo = task[t].todo \ {task'[t].p}
                  /\ task'[t].calls = task[t].calls + 1
               \/ /\ task[t].todo = {}
                  /\ task'[t].pc = "done"]_vars

\* a sweep whose first refresh failed refreshed the other provider and ended
C24_Witness ==
  \E t \in Tasks :
    /\ Op(t) = "sweep" /\ Done(t) /\ task[t].res = Void
    /\ task[t].why = "refresh" /\ task[t].calls = 2
    /\ \E p \in Providers : creds[p].access = 10 * t + 2
    /\ \A u \in Tasks \ {t} : task[u].pc = "idle"

\* the fields a migration step does not introduce are the input's
MigFrame(i, o, fields) ==
  \A f \in (DOMAIN NoSettings \ {"version"}) \ fields : o[f] = i[f]

\* C25 as stated: a migration step returns a settings object with the
\* step's target version, in which each field the step introduces keeps the
\* input's value when the input has one and gets its default otherwise, and
\* every other field is the input's; the input is not modified.
C25_MigrationKeepsPresentValues ==
  [][data' # data =>
       LET i == MigArg
           o == data'.output
           Keep(f, def) == o[f] = IF i[f] # "undefined" THEN i[f] ELSE def
       IN  /\ data'.input = i
           /\ data'.stage = "v13"
                => /\ o.version = 13
                   /\ Keep("oauthCredentials", "{}")
                   /\ Keep("lightRagOAuthProvider", "''")
                   /\ Keep("enableProactiveDiscovery", "false")
                   /\ MigFrame(i, o, {"oauthCredentials",
                                      "lightRagOAuthProvider",
                                      "enableProactiveDiscovery"})
           /\ data'.stage = "v14"
                => /\ o.version = 14
                   /\ Keep("oauthModels", "[]")
                   /\ MigFrame(i, o, {"oauthModels"})]_vars

\* C25 amended: oauthCredentials and lightRagOAuthProvider keep the input's
\* value when it is truthy, enableProactiveDiscovery when it is not
\* undefined, oauthModels when it is an array; otherwise the field gets its
\* default. The version is the target version, every other field is the
\* input's, and the input is not modified.
C25_MigrationKeepsUsableValues ==
  [][data' # data =>
       LET i == MigArg
           o == data'.output
           Keep(f, ok, def) == o[f] = IF ok THEN i[f] ELSE def
       IN  /\ data'.input = i
           /\ data'.stage = "v13"
                => /\ o.version = 13
                   /\ Keep("oauthCredentials",
                           Truthy(i.oauthCredentials), "{}")
                   /\ Keep("lightRagOAuthProvider",
                           Truthy(i.lightRagOAuthProvider), "''")
                   /\ Keep("enableProactiveDiscovery",
                           i.enableProactiveDiscovery # "undefined", "false")
                   /\ MigFrame(i, o, {"oauthCredentials",
                                      "lightRagOAuthProvider",
                                      "enableProactiveDiscovery"})
           /\ data'.stage = "v14"
                => /\ o.version = 14
                   /\ Keep("oauthModels", IsArray(i.oauthModels), "[]")
                   /\ MigFrame(i, o, {"oauthModels"})]_vars

\* version 12 settings that had a credential record and no models went
\* through both steps
C25_Witness ==
  /\ data.stage = "v14" /\ data.steps = 2
  /\ data.input.version = 13 /\ data.output.version = 14
  /\ data.output.oauthCredentials = "{r}"
  /\ data.output.lightRagOAuthProvider = "''"
  /\ data.output.enableProactiveDiscovery = "false"
  /\ data.input.oauthModels = "undefined"
  /\ data.output.oauthModels = "[]"
  /\ data.output.chatModels = "[m]"

\* C26: when logout(P) has completed and no login has been made, P has no
\* record; when login(P) has completed, and the only other call is a
\* getApiKey or forceRefreshActiveToken for P that started before the login
\* completed, P's record is the one the login stored.
C26_RefreshNeverOverwrites ==
  \A u \in Tasks :
    LET p == task[u].p IN
    /\ ( /\ Op(u) = "logout" /\ Done(u) /\ task[u].res = Void
         /\ \A t \in Tasks \ {u} : Op(t) # "login" )
         => ~creds[p].has
    /\ ( /\ Op(u) = "login" /\ Done(u) /\ task[u].res.kind = "key"
         /\ \A t \in Tasks \ {u} :
              /\ Op(t) \in {"getApiKey", "force"}
              /\ task[t].p = p
              /\ Overlap(u, t) \/ Overlap(t, u) )
         => (creds[p].has /\ creds[p].access = 10 * u)

\* C27: every call of provider.refreshToken for P is made with the record
\* the store holds for P at the moment of the call.
C27_RefreshWithCurrentRecord ==
  [][\A t \in Tasks :
       (task'[t].pc = "refresh" /\ task'[t] # task[t])
         => task'[t].loc = creds'[task'[t].p]]_vars

\* C28: getApiKey and forceRefreshActiveToken remove P's record only when
\* the provider's refresh call failed; when the refresh succeeded and only
\* saveData failed, the record stays.
C28_ClearOnlyOnRefreshFailure ==
  [][\A t \in Tasks :
       ( /\ task[t].op \in {"getApiKey", "force"}
         /\ task'[t].pc = "clear" /\ task[t].pc # "clear" )
         => task'[t].why = "refresh"]_vars

\* C29: at most one service process spawned by the plugin is alive, and
\* serverProcess refers to it whenever one is alive.
C29_OneServiceProcess ==
  /\ procs <= 1
  /\ procs = 1 => serverUp

\* an outcome that ends the call with an error whatever the attempt: 401,
\* 403, and every status other than 429/500/502/503/504 whose text is not a
\* rate-limit/overload message
AssistFatal(r) ==
  /\ r.status >= 400
  /\ \/ r.status \in {401, 403}
     \/ r.status \notin {429, 500, 502, 503, 504} /\ ~r.msg

\* the outcomes after which another request may be sent: a retryable status
\* or message, a thrown network error, a 2xx response with empty text
AssistRetryable(r) ==
  /\ ~AssistFatal(r)
  /\ \/ r.status = NoResponse
     \/ r.status >= 400
     \/ r.status = 200 /\ r.body = "empty"

\* requests and outcomes of the call are counted consistently, there are at
\* most MAX_RETRIES + 1 requests, a fatal outcome is the last one and ends
\* the call with an error, and a finished call has a result or an error
AssistBounded ==
  /\ assist.sends <= MAX_RETRIES + 1
  /\ assist.sends = Len(assist.log) + (IF assist.pc = "wait" THEN 1 ELSE 0)
  /\ \A i \in DOMAIN assist.log :
       AssistFatal(assist.log[i])
         => /\ i = Len(assist.log)
            /\ assist.pc = "done" /\ assist.res = "error"
  /\ assist.pc = "done" <=> assist.res \in {"text", "empty", "error"}

\* C30 as stated: callCloudCodeAssist sends at most MAX_RETRIES + 1 = 3
\* requests; a further request is sent only after a retryable status or
\* message, a thrown network error or a 2xx response with empty text; a
\* 401/403 or another non-retryable status ends the call with an error.
C30_RetryOnlyAfterListedOutcomes ==
  /\ AssistBounded
  /\ \A i \in 1 .. assist.sends - 1 : AssistRetryable(assist.log[i])

\* C30 amended: as stated, with one more outcome after which a further
\* request is sent: a 2xx response whose body makes response.json() or
\* extractCCAText throw; and the call always ends, with a result or an error.
C30_BoundedRetries ==
  /\ [](/\ AssistBounded
        /\ \A i \in 1 .. assist.sends - 1 :
             \/ AssistRetryable(assist.log[i])
             \/ /\ assist.log[i].status = 200
                /\ assist.log[i].body = "unreadable")
  /\ <>(assist.pc = "done")

\* three requests: a 429, then a 2xx response without text, then a text
C30_Witness ==
  /\ assist.pc = "done" /\ assist.res = "text" /\ assist.sends = 3
  /\ assist.log[1].status = 429
  /\ assist.log[2].status = 200 /\ assist.log[2].body = "empty"
  /\ assist.log[3].body = "text"

Next ==
  \/ \E t \in Tasks, p \in Providers : GetApiKey(t, p)
  \/ \E t \in Tasks : ForceRefreshActiveToken(t)
  \/ \E t \in Tasks : RefreshAllIfNeeded(t)
  \/ \E t \in Tasks, p \in Providers : Login(t, p)
  \/ \E t \in Tasks, p \in Providers : Logout(t, p)
  \/ \E t \in Tasks, ok \in BOOLEAN, r \in BOOLEAN : LoginDone(t, ok, r)
  \/ \E t \in Tasks, ok \in BOOLEAN : RefreshDone(t, ok)
  \/ \E t \in Tasks, ok \in BOOLEAN : SaveDone(t, ok)
  \/ \E t \in Tasks, ok \in BOOLEAN : ClearDone(t, ok)
  \/ Tick

Spec == Init /\ [][Next]_vars

\* the request wrapper on top of the manager: one query, text insertion or
\* file upload, the manager calls it makes, and a logout that overlaps with it
NextRag ==
  \/ \E t \in Tasks, auto \in BOOLEAN : QueryStart(t, auto)
  \/ \E t \in Tasks, kind \in {"insert", "upload"} : DocumentStart(t, kind)
  \/ \E t \in Tasks : Send(t)
  \/ \E t \in Tasks, st \in Statuses : Response(t, st)
  \/ \E t \in Tasks : AfterForce(t)
  \/ \E t \in Tasks : AfterWake(t)
  \/ \E t \in Tasks, ok \in BOOLEAN : RefreshDone(t, ok)
  \/ \E t \in Tasks, ok \in BOOLEAN : SaveDone(t, ok)
  \/ \E t \in Tasks, ok \in BOOLEAN : ClearDone(t, ok)
  \/ \E t \in Tasks, p \in Providers : Logout(t, p)

SpecRag == Init /\ [][NextRag]_vars

\* delivery to the external service: refreshes of the active source and
\* logouts, the restart timeouts they set and the starts those make
NextSync ==
  \/ \E t \in Tasks : ForceRefreshActiveToken(t)
  \/ \E t \in Tasks, p \in Providers : Logout(t, p)
  \/ \E t \in Tasks, ok \in BOOLEAN : RefreshDone(t, ok)
  \/ \E t \in Tasks, ok \in BOOLEAN : SaveDone(t, ok)
  \/ \E t \in Tasks, ok \in BOOLEAN : ClearDone(t, ok)
  \/ RestartTimer
  \/ PortProbed
  \/ StartLightRagServerSpawn

SpecSync == InitSync /\ [][NextSync]_vars

\* generateEnvConfig called between logouts, at different times
NextEnv ==
  \/ \E t \in Tasks, p \in Providers : Logout(t, p)
  \/ \E t \in Tasks, ok \in BOOLEAN : ClearDone(t, ok)
  \/ GenerateEnvConfigCall
  \/ Tick

SpecEnv == Init /\ [][NextEnv]_vars

\* logins (of registered and unregistered ids, aborted or not), logouts,
\* and listProviders called between them
NextLogin ==
  \/ \E t \in Tasks, p \in Providers \cup {Unregistered} : Login(t, p)
  \/ \E t \in Tasks : LoginAbort(t)
  \/ \E t \in Tasks, p \in Providers : Logout(t, p)
  \/ \E t \in Tasks, ok \in BOOLEAN, r \in BOOLEAN : LoginDone(t, ok, r)
  \/ \E t \in Tasks, ok \in BOOLEAN : SaveDone(t, ok)
  \/ \E t \in Tasks, ok \in BOOLEAN : ClearDone(t, ok)
  \/ ListProviders

SpecLogin == Init /\ [][NextLogin]_vars
\* settings data of version 12 or 13 is loaded and migrated step by step
InitMig ==
  /\ InitStore
  /\ active = NoProvider
  /\ \A p \in Providers : ~creds[p].has
  /\ serverUp = FALSE
  /\ listening = "none"
  /\ serverEnv = NoEnv
  /\ data \in [stage : {"loaded"}, steps : {0}, input : MigValues,
              output : {NoSettings}]
  /\ procs = 0
  /\ assist = NoAssist

NextMig ==
  \/ Migrate12To13Call
  \/ Migrate13To14Call

SpecMig == InitMig /\ [][NextMig]_vars
\* one call of callCloudCodeAssist; every request settles and every sleep ends
InitAssist ==
  /\ InitStore
  /\ active = NoProvider
  /\ \A p \in Providers : ~creds[p].has
  /\ serverUp = FALSE
  /\ listening = "none"
  /\ serverEnv = NoEnv
  /\ data = NoData
  /\ procs = 0
  /\ assist = NoAssist

NextAssist ==
  \/ CallCloudCodeAssist
  \/ \E r \in AssistResponses : AssistResponse(r)
  \/ AssistWake

SpecAssist == InitAssist /\ [][NextAssist]_vars /\ WF_vars(NextAssist)
====
